---- MODULE Spec2Model ----
(***************************************************************************)
(* Scope Manager of fastify-kick-start: the Awilix integration plugin      *)
(* (src/src/index.ts, awilixPlugin).  The plugin keeps a map from request  *)
(* to scope, a lazy diScope getter, and four hooks (onRequest, onResponse, *)
(* onError, onClose).  Each request walks the host framework's lifecycle:  *)
(* onRequest hooks, handler, then either the reply or onError hooks and    *)
(* the error handler, and onResponse hooks once the reply is sent.         *)
(*                                                                         *)
(* DI bridge (src/src/plugins/di-bridge.plugin.ts): SmartDIResolver        *)
(* classifies a container by its shape and resolves classes and names with *)
(* the strategy of the kind it retained; diBridgePlugin builds one from    *)
(* its options.  It is checked under its own specification, SpecResolver.  *)
(* SpecResolverShape adds getCradle and a container whose members change. *)
(*                                                                         *)
(* Controller plugin (controllerPlugin, registerRoute, createRouteHandler): *)
(* SpecController follows the instantiation of the controller classes and  *)
(* the requests on their routes, SpecAuth the route handler of a route     *)
(* with @Auth, SpecMiddleware the @Middleware / @Opts decorators of one    *)
(* method up to the preHandler list of its route, SpecPaths the path       *)
(* combinePaths builds for a route.  SpecRateLimit is rateLimitMiddleware  *)
(* with a clock.                                                           *)
(***************************************************************************)
EXTENDS Integers, Sequences, FiniteSets, TLC

\* ---- bounds -------------------------------------------------------------
NumRequests == 2          \* requests handled by one server
MaxReads == 2             \* reads of request.diScope, over all requests
MaxStack == 3             \* decorators stacked on one controller method
MaxClassStack == 2        \* @Middleware decorators stacked on the class
MaxPathLen == 3           \* characters of a path segment
MaxClock == 4000          \* last instant (ms) at which the clock is advanced

Requests == 1..NumRequests

\* scopeMap.get(request) === undefined, and the value of request.diScope
\* when the request was never decorated
None == <<>>

RECURSIVE SumOver(_, _)
SumOver(f, S) ==
  IF S = {} THEN 0
  ELSE LET x == CHOOSE y \in S : TRUE IN f[x] + SumOver(f, S \ {x})

VARIABLES
  options,          \* AwilixPluginOptions after defaults
  scopeMap,         \* WeakMap<FastifyRequest, AwilixContainer>
  scopes,           \* the objects container.createScope returned, per request, in call order
  pc,               \* position of each request in the request lifecycle
  got,              \* values request.diScope returned, per request
  reads,            \* number of reads of request.diScope, per request
  status,           \* status code of the reply, 0 while none was produced
  threw,            \* the route handler threw
  hookErrors,       \* plugin hooks whose promise rejected, per request
  log,              \* messages written with fastify.log.warn / .error
  server,           \* "running", "closing" (awaiting container.dispose), "closed"
  rootDisposeCalls, \* calls of container.dispose
  rootDisposeRejected, \* the promise of container.dispose rejected
  closeResult,      \* "none", "ok" (app.close resolved), "threw"
  container,        \* shape of the DIContainer handed to the DI bridge
  resolver,         \* the SmartDIResolver: how it was built and the kind it retained
  call,             \* the last resolve / resolveByName / getCradle call and what it did
  plugin,           \* controller plugin: what it finds on fastify and in its options, and how far it got
  controllers,      \* per controller class: the path taken, constructor runs, the instance, its routes
  ranOn,            \* (controller, route, instance) triples on which a controller method ran
  authMeta,         \* @Auth metadata of one route: controller-level and method-level strategy
  authReq,          \* per request on that route: position in the route handler and what happened
  decorators,       \* decorators as written on one controller class and one of its methods
  metadata,         \* reflect-metadata of that class: the method's options entry, the class middleware
  route,            \* the route registered for that method: its preHandler list and what ran
  pathReg,          \* the three path segments of one route and the path registered for it
  rateLimit,        \* rateLimitMiddleware: its options and its `requests` map
  clock,            \* Date.now()
  rateReply         \* what the rate limiter did with the last request it saw

vars == <<options, scopeMap, scopes, pc, got, reads, status, threw,
          hookErrors, log, server, rootDisposeCalls, rootDisposeRejected,
          closeResult, container, resolver, call, plugin, controllers,
          ranOn, authMeta, authReq, decorators, metadata, route, pathReg,
          rateLimit, clock, rateReply>>

reqVars == <<scopeMap, scopes, pc, got, reads, status, threw, hookErrors, log>>
closeVars == <<server, rootDisposeCalls, rootDisposeRejected, closeResult>>
scopeVars == <<options, reqVars, closeVars>>
diVars == <<container, resolver, call>>
ctlVars == <<plugin, controllers, ranOn>>
authVars == <<authMeta, authReq>>
mwVars == <<decorators, metadata, route>>
rlVars == <<rateLimit, clock, rateReply>>
appVars == <<ctlVars, authVars, mwVars, pathReg, rlVars>>

\* ---- values of the DI bridge -------------------------------------------
\* an argument or option that was not given
Undefined == "undefined"

\* container.cradle: missing, null, a plain object, or a resolving proxy that
\* throws for a name it cannot resolve (the cradle of an Awilix container)
CradleKinds == {"undefined", "null", "plain", "proxy"}

\* container.get / container.resolve: missing, a function, or a property
\* that is not callable
MemberKinds == {"absent", "function", "value"}

\* identifiers asked of resolveByName, and registered in a cradle
Names == {"service", "other"}

HasCradle(c) == c.cradle \in {"plain", "proxy"}

Containers ==
  {c \in [cradle : CradleKinds, keys : SUBSET Names,
          get : MemberKinds, resolve : MemberKinds] :
     ~HasCradle(c) => c.keys = {}}

\* containerType as the options type declares it
ContainerTypes == {"awilix", "inversify", "tsyringe", "generic"}

\* no resolver was built yet
NoResolver ==
  [kind |-> "none", via |-> "none", override |-> Undefined,
   containerType |-> Undefined, autoDetect |-> "omitted"]

\* no call was made yet
NoCall ==
  [op |-> "none", name |-> "", kind |-> "none",
   containerCalls |-> <<>>, lookupThrew |-> FALSE,
   lookupError |-> "", constructed |-> <<>>, outcome |-> "none",
   value |-> "", deps |-> ""]

\* the container of the Awilix plugin: a cradle proxy and resolve()
AwilixShape ==
  [cradle |-> "proxy", keys |-> {"service"}, get |-> "absent", resolve |-> "function"]

\* ---- values of the controller plugin ------------------------------------
\* the classes of the `controllers` option, in array order
ControllerList == <<"UserController", "HealthController">>

ControllerClasses == {ControllerList[i] : i \in DOMAIN ControllerList}

\* getControllerRoutes(ControllerClass): the route methods of a class
RoutesOf(k) == IF k = "UserController" THEN {"list", "get"} ELSE {"health"}

\* a class the plugin's loop has not reached; isC: it carries @Controller
NewController(isC) ==
  [isController |-> isC, path |-> "none", ctorRuns |-> 0, ctorThrows |-> 0,
   instance |-> 0, deps |-> "", routes |-> {}]

\* the plugin was not called, nothing but the DI bridge may have decorated
\* fastify, no legacy dependencyInjection option is given
PluginIdle ==
  [decorated |-> FALSE, legacyResolver |-> FALSE, legacyContainer |-> FALSE,
   state |-> "pending", next |-> 1]

ControllerIdle ==
  /\ plugin = PluginIdle
  /\ controllers = [k \in ControllerClasses |-> NewController(TRUE)]
  /\ ranOn = {}

\* ---- values of @Auth ------------------------------------------------------
\* the argument of @Auth: none, the empty string, a strategy name, or an
\* AuthStrategy object
AuthValues == {Undefined, "empty", "named", "strategy"}

\* what authStrategy.authenticate(req, reply) can do: return without a
\* reply, throw, or send a 401 reply and return (as jwtAuthMiddleware does)
Verdicts == {"accept", "throw", "reply401"}

NewAuthRequest ==
  [pc |-> "idle", verdict |-> "none", invoked |-> FALSE, sent |-> FALSE,
   status |-> 0]

AuthIdle ==
  /\ authMeta = [controllerAuth |-> Undefined, routeAuth |-> Undefined]
  /\ authReq = [r \in Requests |-> NewAuthRequest]

\* ---- values of @Middleware and @Opts --------------------------------------
\* options[propertyKey] before any method decorator ran
NoEntry == [defined |-> FALSE, middleware |-> <<>>, preHandler |-> <<>>]

\* @Middleware(fn) and @Middleware([fn, fn]) as written on a method
MethodMiddleware ==
  {[kind |-> "Middleware", fns |-> <<m>>] : m \in {"rateLimit", "cache", "validation"}}
    \cup {[kind |-> "Middleware", fns |-> <<"rateLimit", "cache">>]}

\* @Opts({}) and @Opts({preHandler: hook}) as written on a method
MethodOpts ==
  {[kind |-> "Opts", fns |-> <<>>], [kind |-> "Opts", fns |-> <<"optsHook">>]}

\* @Middleware(fn) as written on the class
ClassMiddleware ==
  {[kind |-> "Middleware", fns |-> <<m>>] : m \in {"logging", "auth"}}

MiddlewareIdle ==
  /\ decorators = [method |-> <<>>, class |-> <<>>, applied |-> 0, classApplied |-> 0]
  /\ metadata = [options |-> NoEntry, middleware |-> <<>>]
  /\ route = [registered |-> FALSE, preHandler |-> <<>>, ran |-> <<>>]

\* ---- values of the route path ---------------------------------------------
\* a path is a sequence of characters; "a" stands for any character but "/"
Chars == {"/", "a"}

Paths == UNION {[1..n -> Chars] : n \in 0..MaxPathLen}

PathIdle ==
  pathReg = [prefix |-> <<>>, controllerPrefix |-> <<>>, path |-> <<>>,
             registered |-> FALSE, fullPath |-> <<>>]

\* ---- values of the rate limiter -------------------------------------------
\* windowMs = 15 * 60 * 1000 and maxRequests = 100 when the options omit them
DefaultWindowMs == 900000
DefaultMaxRequests == 100
\* Math.ceil((resetTime - now) / 1000), Math.ceil(resetTime / 1000)
MsPerSecond == 1000

\* what keyGenerator returns: req.ip
Keys == {"10.0.0.1", "10.0.0.2"}

\* requests.get(key) === undefined
NoRequestInfo == [present |-> FALSE, count |-> 0, resetTime |-> 0]

NoRateReply ==
  [key |-> "", at |-> 0, status |-> 0, retryAfter |-> 0, resetTime |-> 0,
   remaining |-> 0, reset |-> 0]

RateIdle ==
  /\ rateLimit = [windowMs |-> DefaultWindowMs, maxRequests |-> DefaultMaxRequests,
                  requests |-> [k \in Keys |-> NoRequestInfo]]
  /\ clock = 0
  /\ rateReply = NoRateReply

\* nothing but the Awilix plugin and the DI bridge is in use
AppIdle == ControllerIdle /\ AuthIdle /\ MiddlewareIdle /\ PathIdle /\ RateIdle

\* ---- the container ------------------------------------------------------
\* container.createScope() while request r is handled: a new child container.
\* It is named <<r, i>>, the i-th scope made during r; `disposeCalls` lists
\* the calls of its dispose() (the hook, and the request the hook ran for),
\* `rejected` the hooks whose dispose() promise rejected.
NewScopeId(r) == <<r, Len(scopes[r]) + 1>>

CreateScope(r) ==
  [scopes EXCEPT ![r] = Append(@, [disposeCalls |-> <<>>, rejected |-> {}])]

\* scope.dispose() called on scope s from hook h running for request r
Dispose(s, h, r) ==
  [scopes EXCEPT ![s[1]][s[2]].disposeCalls = Append(@, [hook |-> h, req |-> r])]

\* the promise of that call settles: ok = it resolved
DisposeSettled(s, h, ok) ==
  IF ok THEN scopes
  ELSE [scopes EXCEPT ![s[1]][s[2]].rejected = @ \cup {h}]

\* ---- request.diScope ----------------------------------------------------
\* variant: one slot shared by all requests instead of a map keyed by request
ScopeMapGetShared(r) ==
  IF \E q \in Requests : scopeMap[q] # None
    THEN scopeMap[CHOOSE q \in Requests : scopeMap[q] # None]
    ELSE None

\* the entry the plugin looks up for a request
ScopeMapGet(r) == scopeMap[r]

\* getter of the diScope request decorator
DiScopeGetter(r) ==
  IF ScopeMapGet(r) = None
    THEN /\ scopes' = CreateScope(r)
         /\ scopeMap' = [scopeMap EXCEPT ![r] = NewScopeId(r)]
         /\ got' = [got EXCEPT ![r] = @ \cup {NewScopeId(r)}]
    ELSE /\ got' = [got EXCEPT ![r] = @ \cup {ScopeMapGet(r)}]
         /\ UNCHANGED <<scopes, scopeMap>>

\* code handling the request reads request.diScope: a hook registered before
\* the plugin, the route handler, the error handler, or a later onResponse hook
ReadDiScope(r) ==
  /\ pc[r] \in {"received", "handler", "errorHandler", "afterResponse"}
  /\ pc[r] = "received" => server = "running"
  /\ SumOver(reads, Requests) < MaxReads
  /\ reads' = [reads EXCEPT ![r] = @ + 1]
  /\ IF options.enableRequestScoping
       THEN DiScopeGetter(r)
       ELSE /\ got' = [got EXCEPT ![r] = @ \cup {None}]
            /\ UNCHANGED <<scopes, scopeMap>>
  /\ UNCHANGED <<options, pc, status, threw, hookErrors, log>>
  /\ UNCHANGED closeVars
  /\ UNCHANGED <<diVars, appVars>>

\* ---- onRequest ----------------------------------------------------------
\* variant: the hook creates nothing and leaves creation to the getter
OnRequestHookLazy(r) ==
  UNCHANGED <<scopes, scopeMap>>

\* the plugin's onRequest hook
OnRequestHook(r) ==
  /\ scopes' = CreateScope(r)
  /\ scopeMap' = [scopeMap EXCEPT ![r] = NewScopeId(r)]

\* variant: the onRequest hook is registered whatever enableRequestScoping is
RunOnRequestUngated(r) ==
  /\ pc[r] = "received"
  /\ server = "running"
  /\ OnRequestHook(r)
  /\ pc' = [pc EXCEPT ![r] = "handler"]
  /\ UNCHANGED <<options, got, reads, status, threw, hookErrors, log>>
  /\ UNCHANGED closeVars
  /\ UNCHANGED <<diVars, appVars>>

\* the framework runs the onRequest hooks, then routes to the handler
RunOnRequest(r) ==
  /\ pc[r] = "received"
  /\ server = "running"
  /\ IF options.enableRequestScoping
       THEN OnRequestHook(r)
       ELSE UNCHANGED <<scopes, scopeMap>>
  /\ pc' = [pc EXCEPT ![r] = "handler"]
  /\ UNCHANGED <<options, got, reads, status, threw, hookErrors, log>>
  /\ UNCHANGED closeVars
  /\ UNCHANGED <<diVars, appVars>>

\* ---- the route handler ---------------------------------------------------
\* the handler returns a payload: the reply is sent with status 200
HandlerReturn(r) ==
  /\ pc[r] = "handler"
  /\ status' = [status EXCEPT ![r] = 200]
  /\ pc' = [pc EXCEPT ![r] = "sent"]
  /\ UNCHANGED <<options, scopeMap, scopes, got, reads, threw, hookErrors, log>>
  /\ UNCHANGED closeVars
  /\ UNCHANGED <<diVars, appVars>>

\* the handler throws: the framework runs the onError hooks first
HandlerThrow(r) ==
  /\ pc[r] = "handler"
  /\ threw' = [threw EXCEPT ![r] = TRUE]
  /\ pc' = [pc EXCEPT ![r] = "onError"]
  /\ UNCHANGED <<options, scopeMap, scopes, got, reads, status, hookErrors, log>>
  /\ UNCHANGED closeVars
  /\ UNCHANGED <<diVars, appVars>>

\* ---- onError ------------------------------------------------------------
\* variant: the onError hook disposes only when disposeOnResponse is set
OnErrorHookGated(r) ==
  IF options.disposeOnResponse /\ ScopeMapGet(r) # None
    THEN /\ scopes' = Dispose(ScopeMapGet(r), "onError", r)
         /\ pc' = [pc EXCEPT ![r] = "onErrorAwait"]
    ELSE /\ pc' = [pc EXCEPT ![r] = "errorHandler"]
         /\ UNCHANGED scopes

\* the plugin's onError hook up to `await scope.dispose()`
OnErrorHook(r) ==
  IF ScopeMapGet(r) # None
    THEN /\ scopes' = Dispose(ScopeMapGet(r), "onError", r)
         /\ pc' = [pc EXCEPT ![r] = "onErrorAwait"]
    ELSE /\ pc' = [pc EXCEPT ![r] = "errorHandler"]
         /\ UNCHANGED scopes

\* the framework runs the onError hooks; the plugin always registers its own
RunOnError(r) ==
  /\ pc[r] = "onError"
  /\ OnErrorHook(r)
  /\ UNCHANGED <<options, scopeMap, got, reads, status, threw, hookErrors, log>>
  /\ UNCHANGED closeVars
  /\ UNCHANGED <<diVars, appVars>>

\* the onError hook after the dispose promise settled: ok = it resolved
OnErrorResume(r, ok) ==
  /\ pc[r] = "onErrorAwait"
  /\ scopes' = DisposeSettled(ScopeMapGet(r), "onError", ok)
  /\ IF ok
       THEN /\ scopeMap' = [scopeMap EXCEPT ![r] = None]
            /\ UNCHANGED log
       ELSE /\ log' = log \cup {[req |-> r, msg |-> "Failed to dispose Awilix scope on error"]}
            /\ UNCHANGED scopeMap
  /\ pc' = [pc EXCEPT ![r] = "errorHandler"]
  /\ UNCHANGED <<options, got, reads, status, threw, hookErrors>>
  /\ UNCHANGED closeVars
  /\ UNCHANGED <<diVars, appVars>>

\* the error handler replies with error.statusCode || 500; the handler's
\* error is a plain Error
ErrorHandler(r) ==
  /\ pc[r] = "errorHandler"
  /\ status' = [status EXCEPT ![r] = 500]
  /\ pc' = [pc EXCEPT ![r] = "sent"]
  /\ UNCHANGED <<options, scopeMap, scopes, got, reads, threw, hookErrors, log>>
  /\ UNCHANGED closeVars
  /\ UNCHANGED <<diVars, appVars>>

\* ---- onResponse ---------------------------------------------------------
\* the plugin's onResponse hook up to `await scope.dispose()`
OnResponseHook(r) ==
  IF ScopeMapGet(r) # None
    THEN /\ scopes' = Dispose(ScopeMapGet(r), "onResponse", r)
         /\ pc' = [pc EXCEPT ![r] = "onResponseAwait"]
    ELSE /\ pc' = [pc EXCEPT ![r] = "afterResponse"]
         /\ UNCHANGED scopes

\* the reply was sent: the framework runs the onResponse hooks
RunOnResponse(r) ==
  /\ pc[r] = "sent"
  /\ IF options.disposeOnResponse
       THEN OnResponseHook(r)
       ELSE /\ pc' = [pc EXCEPT ![r] = "afterResponse"]
            /\ UNCHANGED scopes
  /\ UNCHANGED <<options, scopeMap, got, reads, status, threw, hookErrors, log>>
  /\ UNCHANGED closeVars
  /\ UNCHANGED <<diVars, appVars>>

\* variant: no try/catch around the await, a rejection leaves the hook
OnResponseResumeNoCatch(r, ok) ==
  /\ pc[r] = "onResponseAwait"
  /\ scopes' = DisposeSettled(ScopeMapGet(r), "onResponse", ok)
  /\ IF ok
       THEN /\ scopeMap' = [scopeMap EXCEPT ![r] = None]
            /\ UNCHANGED hookErrors
       ELSE /\ hookErrors' = [hookErrors EXCEPT ![r] = @ \cup {"onResponse"}]
            /\ UNCHANGED scopeMap
  /\ pc' = [pc EXCEPT ![r] = "afterResponse"]
  /\ UNCHANGED <<options, got, reads, status, threw, log>>
  /\ UNCHANGED closeVars
  /\ UNCHANGED <<diVars, appVars>>

\* the onResponse hook after the dispose promise settled: ok = it resolved
OnResponseResume(r, ok) ==
  /\ pc[r] = "onResponseAwait"
  /\ scopes' = DisposeSettled(ScopeMapGet(r), "onResponse", ok)
  /\ IF ok
       THEN /\ scopeMap' = [scopeMap EXCEPT ![r] = None]
            /\ UNCHANGED log
       ELSE /\ log' = log \cup {[req |-> r, msg |-> "Failed to dispose Awilix scope on response"]}
            /\ UNCHANGED scopeMap
  /\ pc' = [pc EXCEPT ![r] = "afterResponse"]
  /\ UNCHANGED <<options, got, reads, status, threw, hookErrors>>
  /\ UNCHANGED closeVars
  /\ UNCHANGED <<diVars, appVars>>

\* ---- onClose ------------------------------------------------------------
\* the plugin's onClose hook up to `await container.dispose()`
OnCloseHook ==
  /\ rootDisposeCalls' = rootDisposeCalls + 1
  /\ server' = "closing"
  /\ UNCHANGED <<rootDisposeRejected, closeResult>>

\* variant: the onClose hook is registered whatever disposeOnClose is
CloseUngated ==
  /\ server = "running"
  /\ \A r \in Requests : pc[r] \in {"received", "afterResponse"}
  /\ OnCloseHook
  /\ UNCHANGED options
  /\ UNCHANGED reqVars
  /\ UNCHANGED <<diVars, appVars>>

\* app.close(): the framework runs the onClose hooks once, after the requests
\* in flight have completed
Close ==
  /\ server = "running"
  /\ \A r \in Requests : pc[r] \in {"received", "afterResponse"}
  /\ IF options.disposeOnClose
       THEN OnCloseHook
       ELSE /\ server' = "closed"
            /\ closeResult' = "ok"
            /\ UNCHANGED <<rootDisposeCalls, rootDisposeRejected>>
  /\ UNCHANGED options
  /\ UNCHANGED reqVars
  /\ UNCHANGED <<diVars, appVars>>

\* variant: no try/catch around the await, a rejection fails app.close()
OnCloseResumeNoCatch(ok) ==
  /\ server = "closing"
  /\ rootDisposeRejected' = ~ok
  /\ server' = "closed"
  /\ closeResult' = IF ok THEN "ok" ELSE "threw"
  /\ UNCHANGED <<options, rootDisposeCalls>>
  /\ UNCHANGED reqVars
  /\ UNCHANGED <<diVars, appVars>>

\* the onClose hook after the dispose promise settled: ok = it resolved
OnCloseResume(ok) ==
  /\ server = "closing"
  /\ rootDisposeRejected' = ~ok
  /\ IF ok
       THEN UNCHANGED log
       ELSE log' = log \cup {[req |-> 0,
                              msg |-> "Failed to dispose Awilix container on server close"]}
  /\ server' = "closed"
  /\ closeResult' = "ok"
  /\ UNCHANGED <<options, rootDisposeCalls>>
  /\ UNCHANGED <<scopeMap, scopes, pc, got, reads, status, threw, hookErrors>>
  /\ UNCHANGED <<diVars, appVars>>

\* ---- the system ---------------------------------------------------------
\* awilixPlugin(fastify, options): every option is an independent boolean
ScopeInit ==
  /\ options \in [enableRequestScoping : BOOLEAN,
                  disposeOnResponse : BOOLEAN,
                  disposeOnClose : BOOLEAN]
  /\ scopeMap = [r \in Requests |-> None]
  /\ scopes = [r \in Requests |-> <<>>]
  /\ pc = [r \in Requests |-> "received"]
  /\ got = [r \in Requests |-> {}]
  /\ reads = [r \in Requests |-> 0]
  /\ status = [r \in Requests |-> 0]
  /\ threw = [r \in Requests |-> FALSE]
  /\ hookErrors = [r \in Requests |-> {}]
  /\ log = {}
  /\ server = "running"
  /\ rootDisposeCalls = 0
  /\ rootDisposeRejected = FALSE
  /\ closeResult = "none"

\* a server with the Awilix plugin; no DI bridge resolver is built
Init ==
  /\ ScopeInit
  /\ container = AwilixShape
  /\ resolver = NoResolver
  /\ call = NoCall
  /\ AppIdle

Next ==
  \/ \E r \in Requests : ReadDiScope(r)
  \/ \E r \in Requests : RunOnRequest(r)
  \/ \E r \in Requests : HandlerReturn(r)
  \/ \E r \in Requests : HandlerThrow(r)
  \/ \E r \in Requests : RunOnError(r)
  \/ \E r \in Requests, ok \in BOOLEAN : OnErrorResume(r, ok)
  \/ \E r \in Requests : ErrorHandler(r)
  \/ \E r \in Requests : RunOnResponse(r)
  \/ \E r \in Requests, ok \in BOOLEAN : OnResponseResume(r, ok)
  \/ Close
  \/ \E ok \in BOOLEAN : OnCloseResume(ok)

Spec == Init /\ [][Next]_vars

TypeOK ==
  /\ \A r \in Requests :
       scopeMap[r] = None \/ scopeMap[r] \in Requests \X (1..(MaxReads + 1))
  /\ \A r \in Requests : status[r] \in {0, 200, 500}
  /\ rootDisposeCalls \in 0..1

\* ---- SmartDIResolver: classification -----------------------------------
\* variant: get is looked at before cradle
DetectContainerTypeGetFirst(c) ==
  IF c.get = "function" THEN "inversify"
  ELSE IF HasCradle(c) THEN "awilix"
  ELSE IF c.resolve = "function" THEN "generic"
  ELSE "unknown"

\* detectContainerType(): a cradle is truthy when it is an object
DetectContainerType(c) ==
  IF HasCradle(c) THEN "awilix"
  ELSE IF c.get = "function" THEN "inversify"
  ELSE IF c.resolve = "function" THEN "generic"
  ELSE "unknown"

\* variant: the inspection wins whenever it recognises the container
SmartDIResolverKindDetectFirst(c, containerType) ==
  IF DetectContainerType(c) # "unknown" THEN DetectContainerType(c)
  ELSE IF containerType # Undefined THEN containerType
  ELSE "unknown"

\* constructor: this.containerType = containerType || this.detectContainerType()
SmartDIResolverKind(c, containerType) ==
  IF containerType # Undefined THEN containerType ELSE DetectContainerType(c)

\* diBridgePlugin: the second constructor argument, autoDetect ? undefined :
\* containerType, with autoDetect = true when omitted
DiBridgeResolverArg(containerType, autoDetect) ==
  IF autoDetect # "false" THEN Undefined ELSE containerType

\* ---- SmartDIResolver: what a call does -----------------------------------
\* the object a constructor receives: the container, its cradle object, or the
\* undefined / null found in place of a cradle
CradleRef(c) == IF HasCradle(c) THEN "cradle" ELSE c.cradle

\* container.get(x) / container.resolve(x) on member m: "ok", or the error
Invoke(m, throws) ==
  IF m # "function" THEN "TypeError"
  ELSE IF throws THEN "containerError"
  ELSE "ok"

\* `return new target(arg)` after the container calls `calls`; err is the
\* error a container call raised before ("" if none)
Construct(arg, ctorThrows, calls, err) ==
  [containerCalls |-> calls, lookupThrew |-> err # "", lookupError |-> err,
   constructed |-> <<arg>>,
   outcome |-> IF ctorThrows THEN "throw" ELSE "return",
   value |-> IF ctorThrows THEN "ctorError" ELSE "instance",
   deps |-> IF ctorThrows THEN "" ELSE arg]

\* the call returns what the container returned
Returned(calls, v) ==
  [containerCalls |-> calls, lookupThrew |-> FALSE, lookupError |-> "",
   constructed |-> <<>>, outcome |-> "return", value |-> v, deps |-> ""]

\* the call raises the error of the lookup
Raised(calls, err) ==
  [containerCalls |-> calls, lookupThrew |-> TRUE, lookupError |-> err,
   constructed |-> <<>>, outcome |-> "throw", value |-> err, deps |-> ""]

\* ---- SmartDIResolver.resolve ---------------------------------------------
\* variant: the class is built with the container instead of the cradle
ResolveAwilixWithContainer(c, throws, ctorThrows) ==
  Construct("container", ctorThrows, <<>>, "")

\* case 'awilix'
ResolveAwilix(c, throws, ctorThrows) ==
  Construct(CradleRef(c), ctorThrows, <<>>, "")

\* case 'inversify'
ResolveInversify(c, throws, ctorThrows) ==
  IF c.get # "absent"
    THEN IF Invoke(c.get, throws) = "ok"
           THEN Returned(<<"get">>, "containerValue")
           ELSE Construct("container", ctorThrows, <<"get">>, Invoke(c.get, throws))
    ELSE Construct("container", ctorThrows, <<>>, "")

\* variant: no try/catch around container.resolve
ResolveTsyringeNoFallback(c, throws, ctorThrows) ==
  IF Invoke(c.resolve, throws) = "ok"
    THEN Returned(<<"resolve">>, "containerValue")
    ELSE Raised(<<"resolve">>, Invoke(c.resolve, throws))

\* case 'tsyringe'
ResolveTsyringe(c, throws, ctorThrows) ==
  IF Invoke(c.resolve, throws) = "ok"
    THEN Returned(<<"resolve">>, "containerValue")
    ELSE Construct("container", ctorThrows, <<"resolve">>, Invoke(c.resolve, throws))

\* variant: the generic strategy asks container.resolve first
ResolveGenericTryResolve(c, throws, ctorThrows) ==
  IF Invoke(c.resolve, throws) = "ok"
    THEN Returned(<<"resolve">>, "containerValue")
    ELSE Construct("container", ctorThrows, <<"resolve">>, Invoke(c.resolve, throws))

\* case 'generic' and default
ResolveGeneric(c, throws, ctorThrows) ==
  Construct("container", ctorThrows, <<>>, "")

\* resolve(target): the switch on the retained kind
ResolveClass(kind, c, throws, ctorThrows) ==
  CASE kind = "awilix" -> ResolveAwilix(c, throws, ctorThrows)
    [] kind = "inversify" -> ResolveInversify(c, throws, ctorThrows)
    [] kind = "tsyringe" -> ResolveTsyringe(c, throws, ctorThrows)
    [] OTHER -> ResolveGeneric(c, throws, ctorThrows)

\* ---- SmartDIResolver.resolveByName ----------------------------------------
\* case 'awilix': this.container.cradle[name]
ByNameAwilix(c, name, throws) ==
  IF ~HasCradle(c) THEN Raised(<<>>, "TypeError")
  ELSE IF c.cradle = "plain"
    THEN IF name \in c.keys
           THEN Returned(<<"cradle">>, "cradleValue")
           ELSE Returned(<<"cradle">>, "undefined")
    ELSE IF name \in c.keys /\ ~throws
           THEN Returned(<<"cradle">>, "cradleValue")
           ELSE Raised(<<"cradle">>, "containerError")

\* case 'inversify': this.container.get!(name)
ByNameInversify(c, name, throws) ==
  IF Invoke(c.get, throws) = "ok"
    THEN Returned(<<"get">>, "containerValue")
    ELSE Raised(<<"get">>, Invoke(c.get, throws))

\* case 'tsyringe', 'generic' and default: this.container.resolve(name)
ByNameResolve(c, name, throws) ==
  IF Invoke(c.resolve, throws) = "ok"
    THEN Returned(<<"resolve">>, "containerValue")
    ELSE Raised(<<"resolve">>, Invoke(c.resolve, throws))

\* variant: a failed lookup is swallowed and undefined is returned
ResolveByNameOfSwallow(kind, c, name, throws) ==
  LET r == CASE kind = "awilix" -> ByNameAwilix(c, name, throws)
             [] kind = "inversify" -> ByNameInversify(c, name, throws)
             [] OTHER -> ByNameResolve(c, name, throws)
  IN IF r.outcome = "throw"
       THEN [r EXCEPT !.outcome = "return", !.value = "undefined"]
       ELSE r

\* resolveByName(name): the switch on the retained kind
ResolveByNameOf(kind, c, name, throws) ==
  CASE kind = "awilix" -> ByNameAwilix(c, name, throws)
    [] kind = "inversify" -> ByNameInversify(c, name, throws)
    [] OTHER -> ByNameResolve(c, name, throws)

\* ---- SmartDIResolver.getCradle --------------------------------------------
\* getCradle(): the cradle for the kind 'awilix', else the container
GetCradleOf(kind, c) ==
  IF kind = "awilix" THEN Returned(<<"cradle">>, CradleRef(c))
  ELSE Returned(<<>>, "container")

\* ---- the DI bridge as a system -------------------------------------------
\* variant: every call inspects the container again
ContainerTypeOfRedetect(res, c) ==
  IF res.override # Undefined THEN res.override ELSE DetectContainerType(c)

\* this.containerType as resolve, resolveByName and getCradle read it: the
\* private field the constructor assigned
ContainerTypeOf(res, c) == res.kind

\* new SmartDIResolver(container, containerType)
NewSmartDIResolver(containerType) ==
  /\ resolver.kind = "none"
  /\ resolver' = [kind |-> SmartDIResolverKind(container, containerType),
                  via |-> "direct", override |-> containerType,
                  containerType |-> containerType, autoDetect |-> "omitted"]
  /\ UNCHANGED <<container, call>>
  /\ UNCHANGED <<scopeVars, appVars>>

\* fastify.register(diBridgePlugin, {container, containerType, autoDetect})
DiBridgePlugin(containerType, autoDetect) ==
  /\ resolver.kind = "none"
  /\ resolver' =
       [kind |-> SmartDIResolverKind(container,
                                     DiBridgeResolverArg(containerType, autoDetect)),
        via |-> "plugin",
        override |-> DiBridgeResolverArg(containerType, autoDetect),
        containerType |-> containerType, autoDetect |-> autoDetect]
  /\ UNCHANGED <<container, call>>
  /\ UNCHANGED <<scopeVars, appVars>>

\* resolver.resolve(TestClass); throws: the container call throws,
\* ctorThrows: the constructor of the class throws
Resolve(throws, ctorThrows) ==
  /\ resolver.kind # "none"
  /\ call' = [op |-> "resolve", name |-> "",
               kind |-> ContainerTypeOf(resolver, container)]
               @@ ResolveClass(ContainerTypeOf(resolver, container), container,
                               throws, ctorThrows)
  /\ UNCHANGED <<container, resolver>>
  /\ UNCHANGED <<scopeVars, appVars>>

\* resolver.resolveByName(name); throws: the lookup throws
ResolveByName(name, throws) ==
  /\ resolver.kind # "none"
  /\ call' = [op |-> "resolveByName", name |-> name,
               kind |-> ContainerTypeOf(resolver, container)]
               @@ ResolveByNameOf(ContainerTypeOf(resolver, container), container,
                                  name, throws)
  /\ UNCHANGED <<container, resolver>>
  /\ UNCHANGED <<scopeVars, appVars>>

\* any container shape; the Awilix plugin stays idle with its default options
ResolverInit ==
  /\ ScopeInit
  /\ options = [enableRequestScoping |-> TRUE, disposeOnResponse |-> TRUE,
                disposeOnClose |-> TRUE]
  /\ container \in Containers
  /\ resolver = NoResolver
  /\ call = NoCall
  /\ AppIdle

ResolverNext ==
  \/ \E ct \in ContainerTypes \cup {Undefined} : NewSmartDIResolver(ct)
  \/ \E ct \in ContainerTypes \cup {Undefined}, ad \in {"omitted", "true", "false"} :
       DiBridgePlugin(ct, ad)
  \/ \E throws \in BOOLEAN, ctorThrows \in BOOLEAN : Resolve(throws, ctorThrows)
  \/ \E name \in Names, throws \in BOOLEAN : ResolveByName(name, throws)

SpecResolver == ResolverInit /\ [][ResolverNext]_vars

\* resolver.getCradle()
GetCradle ==
  /\ resolver.kind # "none"
  /\ call' = [op |-> "getCradle", name |-> "",
               kind |-> ContainerTypeOf(resolver, container)]
               @@ GetCradleOf(ContainerTypeOf(resolver, container), container)
  /\ UNCHANGED <<container, resolver>>
  /\ UNCHANGED <<scopeVars, appVars>>

\* the owner of the container changes its members after the resolver was
\* built: the resolver holds the container by reference
ChangeShape(c) ==
  /\ resolver.kind # "none"
  /\ c # container
  /\ container' = c
  /\ UNCHANGED <<resolver, call>>
  /\ UNCHANGED <<scopeVars, appVars>>

\* the DI bridge with a container whose shape changes while it is in use
ShapeNext ==
  \/ \E ct \in ContainerTypes \cup {Undefined} : NewSmartDIResolver(ct)
  \/ \E ct \in ContainerTypes \cup {Undefined}, ad \in {"omitted", "true", "false"} :
       DiBridgePlugin(ct, ad)
  \/ \E throws \in BOOLEAN, ctorThrows \in BOOLEAN : Resolve(throws, ctorThrows)
  \/ \E name \in Names, throws \in BOOLEAN : ResolveByName(name, throws)
  \/ GetCradle
  \/ \E c \in Containers : ChangeShape(c)

SpecResolverShape == ResolverInit /\ [][ShapeNext]_vars

\* ---- controller plugin: instantiation --------------------------------------
\* fastify.diResolver: decorated by diBridgePlugin
DiResolverAttached == resolver.via = "plugin"

\* fastify.diContainer: decorated by diBridgePlugin, or by another plugin
\* (awilixPlugin decorates it too)
DiContainerAttached == resolver.via = "plugin" \/ plugin.decorated

\* variant: the legacy dependencyInjection options are looked at first
InstantiationPathLegacyFirst(diResolver, legacyResolver, legacyContainer, diContainer, cradle) ==
  IF legacyResolver THEN "legacyResolver"
  ELSE IF legacyContainer THEN "legacyContainer"
  ELSE IF diResolver THEN "diResolver"
  ELSE IF diContainer /\ cradle THEN "cradle"
  ELSE IF diContainer THEN "diContainer"
  ELSE "plain"

\* the if / else-if chain that creates the controller instance
InstantiationPath(diResolver, legacyResolver, legacyContainer, diContainer, cradle) ==
  IF diResolver THEN "diResolver"
  ELSE IF legacyResolver THEN "legacyResolver"
  ELSE IF legacyContainer THEN "legacyContainer"
  ELSE IF diContainer /\ cradle THEN "cradle"
  ELSE IF diContainer THEN "diContainer"
  ELSE "plain"

\* new ControllerClass(arg): one run of the constructor
NewInstance(arg, ctorThrows) ==
  [outcome |-> IF ctorThrows THEN "throw" ELSE "return",
   ctorRuns |-> 1,
   ctorThrows |-> IF ctorThrows THEN 1 ELSE 0,
   deps |-> IF ctorThrows THEN "" ELSE arg]

\* fastify.diResolver.resolve(ControllerClass).  A container call that
\* returns has built the instance (one constructor run); one that throws has
\* either failed before it built anything or run the constructor, which
\* threw (ranCtor).  The constructor runs again for every `new target(...)`
\* of the resolver itself.
ViaDiResolver(throws, ranCtor, ctorThrows) ==
  LET res == ResolveClass(ContainerTypeOf(resolver, container), container,
                          throws, ctorThrows)
      inside == IF res.containerCalls = <<>> THEN 0
                ELSE IF ~res.lookupThrew THEN 1
                ELSE IF res.lookupError = "containerError" /\ ranCtor THEN 1
                ELSE 0
      outside == Len(res.constructed)
  IN [outcome |-> res.outcome,
      ctorRuns |-> inside + outside,
      ctorThrows |-> (IF res.lookupThrew THEN inside ELSE 0)
                       + (IF outside > 0 /\ ctorThrows THEN 1 ELSE 0),
      deps |-> IF res.outcome = "throw" THEN ""
               ELSE IF outside > 0 THEN res.deps ELSE "injected"]

\* dependencyInjection.resolver(ControllerClass): the function builds the
\* instance, or throws before or while it does
ViaLegacyResolver(throws, ranCtor) ==
  IF throws
    THEN [outcome |-> "throw", ctorRuns |-> IF ranCtor THEN 1 ELSE 0,
          ctorThrows |-> IF ranCtor THEN 1 ELSE 0, deps |-> ""]
    ELSE [outcome |-> "return", ctorRuns |-> 1, ctorThrows |-> 0,
          deps |-> "injected"]

\* the branch taken on the selected path
Instantiate(path, throws, ranCtor, ctorThrows) ==
  CASE path = "diResolver" -> ViaDiResolver(throws, ranCtor, ctorThrows)
    [] path = "legacyResolver" -> ViaLegacyResolver(throws, ranCtor)
    [] path = "legacyContainer" -> NewInstance("legacyContainer", ctorThrows)
    [] path = "cradle" -> NewInstance("cradle", ctorThrows)
    [] path = "diContainer" -> NewInstance("container", ctorThrows)
    [] OTHER -> NewInstance("none", ctorThrows)

\* ---- controller plugin: the system -----------------------------------------
\* fastify.register(diBridgePlugin, ...) before the controller plugin; a
\* second decorate('diContainer') would be refused by the host
RegisterDiBridge(containerType, autoDetect) ==
  /\ plugin.state = "pending"
  /\ ~plugin.decorated
  /\ DiBridgePlugin(containerType, autoDetect)

\* fastify.log.warn after `new ControllerClass()` on the path without DI
WarnNoDependencies(k) ==
  [req |-> 0,
   msg |-> IF k = "UserController"
             THEN "Controller UserController instantiated without dependencies - consider using DI bridge plugin"
             ELSE "Controller HealthController instantiated without dependencies - consider using DI bridge plugin"]

\* one iteration of `for (const ControllerClass of controllers)`: the
\* @Controller check, the instance, the warning of the path without DI, and
\* the routes of the class.  A throw leaves the loop and the plugin.
RegisterController(k, throws, ranCtor, ctorThrows) ==
  /\ plugin.state \in {"pending", "running"}
  /\ plugin.next <= Len(ControllerList)
  /\ k = ControllerList[plugin.next]
  /\ IF ~controllers[k].isController
       THEN /\ plugin' = [plugin EXCEPT !.state = "aborted"]
            /\ UNCHANGED <<controllers, log>>
       ELSE LET path == InstantiationPath(DiResolverAttached, plugin.legacyResolver,
                                          plugin.legacyContainer, DiContainerAttached,
                                          HasCradle(container))
                made == Instantiate(path, throws, ranCtor, ctorThrows)
                ok == made.outcome = "return"
            IN /\ controllers' =
                    [controllers EXCEPT ![k] =
                       [@ EXCEPT !.path = path,
                                 !.ctorRuns = made.ctorRuns,
                                 !.ctorThrows = made.ctorThrows,
                                 !.instance = IF ok THEN made.ctorRuns ELSE 0,
                                 !.deps = made.deps,
                                 !.routes = IF ok THEN RoutesOf(k) ELSE {}]]
               /\ plugin' =
                    [plugin EXCEPT
                       !.state = IF ~ok THEN "aborted"
                                 ELSE IF plugin.next = Len(ControllerList)
                                   THEN "registered" ELSE "running",
                       !.next = IF ok THEN @ + 1 ELSE @]
               /\ log' = IF ok /\ path = "plain"
                           THEN log \cup {WarnNoDependencies(k)}
                           ELSE log
  /\ UNCHANGED ranOn
  /\ UNCHANGED <<options, scopeMap, scopes, pc, got, reads, status, threw,
                 hookErrors, closeVars>>
  /\ UNCHANGED <<diVars, authVars, mwVars, pathReg, rlVars>>

\* a request on route m of controller k: the handler registerRoute made
\* calls controllerInstance[methodName] on the instance it closed over
HandleRequest(k, m) ==
  /\ plugin.state = "registered"
  /\ m \in controllers[k].routes
  /\ ranOn' = ranOn \cup {[controller |-> k, route |-> m,
                           instance |-> controllers[k].instance]}
  /\ UNCHANGED <<plugin, controllers>>
  /\ UNCHANGED <<scopeVars, diVars, authVars, mwVars, pathReg, rlVars>>

\* container shapes offered to the controller plugin
ControllerContainers ==
  {c \in Containers : /\ c.keys = {}
                      /\ c.cradle \in {"undefined", "proxy"}
                      /\ c.get \in {"absent", "function"}
                      /\ c.resolve = "function"}

ControllerInit ==
  /\ ScopeInit
  /\ options = [enableRequestScoping |-> TRUE, disposeOnResponse |-> TRUE,
                disposeOnClose |-> TRUE]
  /\ container \in ControllerContainers
  /\ resolver = NoResolver
  /\ call = NoCall
  /\ plugin \in {[PluginIdle EXCEPT !.decorated = d, !.legacyResolver = lr,
                                    !.legacyContainer = lc] :
                   d \in BOOLEAN, lr \in BOOLEAN, lc \in BOOLEAN}
  /\ controllers \in {[k \in ControllerClasses |-> NewController(f[k])] :
                        f \in [ControllerClasses -> BOOLEAN]}
  /\ ranOn = {}
  /\ AuthIdle /\ MiddlewareIdle /\ PathIdle /\ RateIdle

ControllerNext ==
  \/ \E ct \in ContainerTypes \cup {Undefined}, ad \in {"omitted", "false"} :
       RegisterDiBridge(ct, ad)
  \/ \E k \in ControllerClasses, throws \in BOOLEAN, ranCtor \in BOOLEAN,
        ctorThrows \in BOOLEAN : RegisterController(k, throws, ranCtor, ctorThrows)
  \/ \E k \in ControllerClasses : \E m \in RoutesOf(k) : HandleRequest(k, m)

SpecController == ControllerInit /\ [][ControllerNext]_vars

\* ---- route handler with @Auth (plugins/controller.plugin.ts) ---------------
\* getEffectiveAuth: the method-level strategy, else the controller-level one
GetEffectiveAuth(routeAuth, controllerAuth) ==
  IF routeAuth # Undefined THEN routeAuth ELSE controllerAuth

\* the strategy createRouteHandler closed over for the route
AuthStrategy == GetEffectiveAuth(authMeta.routeAuth, authMeta.controllerAuth)

\* `if (authStrategy)`: undefined and the empty string are falsy
Truthy(strategy) == strategy \notin {Undefined, "empty"}

\* the route handler starts: `if (authStrategy) await executeAuth(...)`.
\* With a falsy strategy it calls the controller method in the same run and
\* waits for its promise.  executeAuth throws at once for a strategy name,
\* and the error goes to the error handler; for a strategy object it calls
\* authenticate, which runs up to its first await (atOnce: it has sent a 401
\* reply by then, as jwtAuthMiddleware does for a missing header), and waits.
RouteHandler(r, atOnce) ==
  /\ authReq[r].pc = "idle"
  /\ authReq' =
       [authReq EXCEPT ![r] =
          IF ~Truthy(AuthStrategy)
            THEN [@ EXCEPT !.pc = "method", !.invoked = TRUE]
          ELSE IF AuthStrategy = "named"
            THEN [@ EXCEPT !.pc = "done", !.verdict = "notFound",
                           !.sent = TRUE, !.status = 500]
          ELSE IF atOnce
            THEN [@ EXCEPT !.pc = "auth", !.verdict = "reply401",
                           !.sent = TRUE, !.status = 401]
          ELSE [@ EXCEPT !.pc = "auth"]]
  /\ UNCHANGED authMeta
  /\ UNCHANGED <<scopeVars, diVars, ctlVars, mwVars, pathReg, rlVars>>

\* authenticate, resumed after an await of its own, rejects the request:
\* reply.code(401).send(...)
SendUnauthorized(r) ==
  /\ authReq[r].pc = "auth"
  /\ authReq[r].verdict = "none"
  /\ authReq' = [authReq EXCEPT ![r] =
                   [@ EXCEPT !.verdict = "reply401", !.sent = TRUE, !.status = 401]]
  /\ UNCHANGED authMeta
  /\ UNCHANGED <<scopeVars, diVars, ctlVars, mwVars, pathReg, rlVars>>

\* the promise of authStrategy.authenticate(req, reply) settles with verdict
\* v, after the 401 reply if it sent one; unless it threw, the handler goes
\* on after `await executeAuth(...)` and calls the controller method in the
\* same run, then waits for its promise
Authenticate(r, v) ==
  /\ authReq[r].pc = "auth"
  /\ v = "reply401" <=> authReq[r].verdict = "reply401"
  /\ authReq' =
       [authReq EXCEPT ![r] =
          IF v = "throw"
            THEN [@ EXCEPT !.pc = "done", !.verdict = v,
                           !.sent = TRUE, !.status = 500]
            ELSE [@ EXCEPT !.pc = "method", !.verdict = v, !.invoked = TRUE]]
  /\ UNCHANGED authMeta
  /\ UNCHANGED <<scopeVars, diVars, ctlVars, mwVars, pathReg, rlVars>>

\* the promise of `await controllerInstance[methodName](req, reply)` settles,
\* some turns of the event loop after the call: the result is sent unless a
\* reply was sent before; a rejection goes to the error handler, which
\* cannot reply twice
ControllerMethod(r, throws) ==
  /\ authReq[r].pc = "method"
  /\ authReq[r].invoked
  /\ authReq' =
       [authReq EXCEPT ![r] =
          [@ EXCEPT !.pc = "done", !.sent = TRUE,
                    !.status = IF authReq[r].sent THEN @
                               ELSE IF throws THEN 500 ELSE 200]]
  /\ UNCHANGED authMeta
  /\ UNCHANGED <<scopeVars, diVars, ctlVars, mwVars, pathReg, rlVars>>

AuthInit ==
  /\ ScopeInit
  /\ options = [enableRequestScoping |-> TRUE, disposeOnResponse |-> TRUE,
                disposeOnClose |-> TRUE]
  /\ container = AwilixShape
  /\ resolver = NoResolver
  /\ call = NoCall
  /\ authMeta \in [controllerAuth : AuthValues, routeAuth : AuthValues]
  /\ authReq = [r \in Requests |-> NewAuthRequest]
  /\ ControllerIdle /\ MiddlewareIdle /\ PathIdle /\ RateIdle

AuthNext ==
  \/ \E r \in Requests, atOnce \in BOOLEAN : RouteHandler(r, atOnce)
  \/ \E r \in Requests : SendUnauthorized(r)
  \/ \E r \in Requests, v \in Verdicts : Authenticate(r, v)
  \/ \E r \in Requests, throws \in BOOLEAN : ControllerMethod(r, throws)

SpecAuth == AuthInit /\ [][AuthNext]_vars

\* ---- decorators: @Middleware and @Opts --------------------------------------
\* Decorators stacked on one declaration are applied from the one written
\* last to the one written first (the Prefix decorator relies on it: the
\* prefix it finds was put there by a decorator written below it).
NextToApply(written, applied) == written[Len(written) - applied]

\* Middleware(...) applied to a method: push(...middlewareArray)
MiddlewareOnMethod(d, entry) ==
  [defined |-> TRUE, middleware |-> entry.middleware \o d.fns,
   preHandler |-> entry.preHandler]

\* Opts(opts) applied to a method: options[propertyKey] = opts
OptsOnMethod(d, entry) ==
  [defined |-> TRUE, middleware |-> <<>>, preHandler |-> d.fns]

\* Middleware(...) applied to the class: [...existingMiddleware, ...middlewareArray]
MiddlewareOnClass(d, existing) == existing \o d.fns

\* getEffectiveMiddleware: [...controllerMiddleware, ...routeMiddleware]
GetEffectiveMiddleware(controllerMiddleware, entry) ==
  controllerMiddleware \o entry.middleware

\* the preHandler list registerRoute hands to fastify
RoutePreHandler(middleware, entry) ==
  IF entry.defined
    THEN IF Len(middleware) > 0 THEN middleware \o entry.preHandler
         ELSE entry.preHandler
    ELSE middleware

\* ---- prefix.decorator.ts: normalizePath, combinePaths -----------------------
StartsWith(p, ch) == Len(p) > 0 /\ p[1] = ch

EndsWith(p, ch) == Len(p) > 0 /\ p[Len(p)] = ch

NonEmpty(p) == Len(p) > 0

\* normalizePath: '' for '' and '/', else one leading and one trailing
\* slash are sliced off
NormalizePath(p) ==
  IF Len(p) = 0 \/ p = <<"/">> THEN <<>>
  ELSE LET a == IF StartsWith(p, "/") THEN SubSeq(p, 2, Len(p)) ELSE p
           b == IF EndsWith(a, "/") THEN SubSeq(a, 1, Len(a) - 1) ELSE a
       IN b

\* `/${validPaths.join('/')}`
RECURSIVE JoinSegments(_)
JoinSegments(segs) ==
  IF Len(segs) = 0 THEN <<>>
  ELSE <<"/">> \o Head(segs) \o JoinSegments(Tail(segs))

\* combinePaths(...paths)
CombinePaths(paths) ==
  LET given == SelectSeq(paths, NonEmpty)
      normalized == [i \in 1..Len(given) |-> NormalizePath(given[i])]
      validPaths == SelectSeq(normalized, NonEmpty)
  IN IF Len(validPaths) > 0 THEN JoinSegments(validPaths) ELSE <<"/">>

\* ---- one decorated method, from class definition to a request --------------
\* the class is defined: the next decorator of the method is applied
ApplyMethodDecorator ==
  /\ decorators.applied < Len(decorators.method)
  /\ LET d == NextToApply(decorators.method, decorators.applied)
     IN metadata' =
          [metadata EXCEPT !.options =
             IF d.kind = "Middleware" THEN MiddlewareOnMethod(d, @)
             ELSE OptsOnMethod(d, @)]
  /\ decorators' = [decorators EXCEPT !.applied = @ + 1]
  /\ UNCHANGED <<route, pathReg>>
  /\ UNCHANGED <<scopeVars, diVars, ctlVars, authVars, rlVars>>

\* the decorators of the class are applied after those of its members
ApplyClassDecorator ==
  /\ decorators.applied = Len(decorators.method)
  /\ decorators.classApplied < Len(decorators.class)
  /\ LET d == NextToApply(decorators.class, decorators.classApplied)
     IN metadata' = [metadata EXCEPT !.middleware = MiddlewareOnClass(d, @)]
  /\ decorators' = [decorators EXCEPT !.classApplied = @ + 1]
  /\ UNCHANGED <<route, pathReg>>
  /\ UNCHANGED <<scopeVars, diVars, ctlVars, authVars, rlVars>>

\* registerRoute(fastify, instance, route, routeOpts,
\*               combinePaths(prefix, controllerPrefix), ControllerClass)
RegisterRoute ==
  /\ decorators.applied = Len(decorators.method)
  /\ decorators.classApplied = Len(decorators.class)
  /\ ~route.registered
  /\ pathReg' =
       [pathReg EXCEPT
          !.registered = TRUE,
          !.fullPath = CombinePaths(<<CombinePaths(<<pathReg.prefix,
                                                     pathReg.controllerPrefix>>),
                                      pathReg.path>>)]
  /\ route' =
       [route EXCEPT
          !.registered = TRUE,
          !.preHandler =
             RoutePreHandler(GetEffectiveMiddleware(metadata.middleware,
                                                    metadata.options),
                             metadata.options)]
  /\ UNCHANGED <<decorators, metadata>>
  /\ UNCHANGED <<scopeVars, diVars, ctlVars, authVars, rlVars>>

\* a request on the route: the host runs the preHandler list in array order
RunPreHandlers ==
  /\ route.registered
  /\ route' = [route EXCEPT !.ran = route.preHandler]
  /\ UNCHANGED <<decorators, metadata, pathReg>>
  /\ UNCHANGED <<scopeVars, diVars, ctlVars, authVars, rlVars>>

RECURSIVE SeqsUpTo(_, _)
\* the sequences of at most n elements of S
SeqsUpTo(S, n) ==
  IF n = 0 THEN {<<>>}
  ELSE SeqsUpTo(S, n - 1)
         \cup {Append(s, x) : s \in {t \in SeqsUpTo(S, n - 1) : Len(t) = n - 1}, x \in S}

\* one class with decorators on it and on one method; the plugin prefix, the
\* controller prefix and the route path are empty
MiddlewareInit ==
  /\ ScopeInit
  /\ options = [enableRequestScoping |-> TRUE, disposeOnResponse |-> TRUE,
                disposeOnClose |-> TRUE]
  /\ container = AwilixShape
  /\ resolver = NoResolver
  /\ call = NoCall
  /\ decorators \in [method : SeqsUpTo(MethodMiddleware \cup MethodOpts, MaxStack),
                     class : SeqsUpTo(ClassMiddleware, MaxClassStack),
                     applied : {0}, classApplied : {0}]
  /\ metadata = [options |-> NoEntry, middleware |-> <<>>]
  /\ route = [registered |-> FALSE, preHandler |-> <<>>, ran |-> <<>>]
  /\ ControllerIdle /\ AuthIdle /\ PathIdle /\ RateIdle

MiddlewareNext ==
  \/ ApplyMethodDecorator
  \/ ApplyClassDecorator
  \/ RegisterRoute
  \/ RunPreHandlers

SpecMiddleware == MiddlewareInit /\ [][MiddlewareNext]_vars

\* one undecorated method with any three path segments
PathInit ==
  /\ ScopeInit
  /\ options = [enableRequestScoping |-> TRUE, disposeOnResponse |-> TRUE,
                disposeOnClose |-> TRUE]
  /\ container = AwilixShape
  /\ resolver = NoResolver
  /\ call = NoCall
  /\ pathReg \in [prefix : Paths, controllerPrefix : Paths, path : Paths,
                  registered : {FALSE}, fullPath : {<<>>}]
  /\ ControllerIdle /\ AuthIdle /\ MiddlewareIdle /\ RateIdle

PathNext == RegisterRoute

SpecPaths == PathInit /\ [][PathNext]_vars

\* ---- rateLimitMiddleware ------------------------------------------------------
\* Math.ceil(x / d) for an integer x of either sign
CeilDiv(x, d) == -((-x) \div d)

\* "Clean up old entries": entries with resetTime < windowStart are deleted
CleanUp(requests, windowStart) ==
  [k \in Keys |-> IF requests[k].present /\ requests[k].resetTime < windowStart
                    THEN NoRequestInfo ELSE requests[k]]

\* "Get or create request info"
RequestInfo(requests, key, now, windowMs) ==
  IF ~requests[key].present \/ requests[key].resetTime < now - windowMs
    THEN [present |-> TRUE, count |-> 0, resetTime |-> now + windowMs]
    ELSE requests[key]

\* the middleware runs for a request of key; skipSuccessfulRequests and
\* skipFailedRequests are left at false
RateLimitMiddleware(key) ==
  LET now == clock
      windowStart == now - rateLimit.windowMs
      cleaned == CleanUp(rateLimit.requests, windowStart)
      requestInfo == RequestInfo(cleaned, key, now, rateLimit.windowMs)
  IN /\ IF requestInfo.count >= rateLimit.maxRequests
          THEN /\ rateLimit' = [rateLimit EXCEPT
                                  !.requests = [cleaned EXCEPT ![key] = requestInfo]]
               /\ rateReply' =
                    [key |-> key, at |-> now, status |-> 429,
                     retryAfter |-> CeilDiv(requestInfo.resetTime - now, MsPerSecond),
                     resetTime |-> requestInfo.resetTime,
                     remaining |-> 0, reset |-> 0]
          ELSE /\ rateLimit' =
                    [rateLimit EXCEPT
                       !.requests = [cleaned EXCEPT ![key] =
                                       [requestInfo EXCEPT !.count = @ + 1]]]
               /\ rateReply' =
                    [key |-> key, at |-> now, status |-> 200, retryAfter |-> 0,
                     resetTime |-> requestInfo.resetTime,
                     remaining |-> rateLimit.maxRequests - (requestInfo.count + 1),
                     reset |-> CeilDiv(requestInfo.resetTime, MsPerSecond)]
     /\ UNCHANGED clock
     /\ UNCHANGED <<scopeVars, diVars, ctlVars, authVars, mwVars, pathReg>>

\* time passes between two requests
Tick(d) ==
  /\ clock + d <= MaxClock
  /\ clock' = clock + d
  /\ UNCHANGED <<rateLimit, rateReply>>
  /\ UNCHANGED <<scopeVars, diVars, ctlVars, authVars, mwVars, pathReg>>

RateInit ==
  /\ ScopeInit
  /\ options = [enableRequestScoping |-> TRUE, disposeOnResponse |-> TRUE,
                disposeOnClose |-> TRUE]
  /\ container = AwilixShape
  /\ resolver = NoResolver
  /\ call = NoCall
  /\ rateLimit \in [windowMs : {1000, 1500}, maxRequests : {1, 2},
                    requests : {[k \in Keys |-> NoRequestInfo]}]
  /\ clock = 0
  /\ rateReply = NoRateReply
  /\ ControllerIdle /\ AuthIdle /\ MiddlewareIdle /\ PathIdle

RateNext ==
  \/ \E key \in Keys : RateLimitMiddleware(key)
  \/ \E d \in {500, 1000} : Tick(d)

SpecRateLimit == RateInit /\ [][RateNext]_vars


\* ---- properties ---------------------------------------------------------
Done(r) == pc[r] = "afterResponse"

ScopeIds(r) == 1..Len(scopes[r])

\* hooks of the dispose() calls made on the i-th scope of request r
CallsOn(r, i) == scopes[r][i].disposeCalls

Logged(r, m) == [req |-> r, msg |-> m] \in log

\* C1: with request scoping enabled, every read of request.diScope during one
\* request returns the same scope, and container.createScope is called exactly
\* once for that request.
C1_OneScopePerRequest ==
  options.enableRequestScoping =>
    \A r \in Requests :
      /\ Cardinality(got[r]) <= 1
      /\ Len(scopes[r]) <= 1
      /\ pc[r] # "received" => Len(scopes[r]) = 1

\* C2: with request scoping and dispose-on-response enabled, the scope of a
\* request is disposed exactly once over the whole request: never twice, and
\* not zero times once the response hooks have run.  Stated for the scope the
\* onRequest hook made, for requests that never read request.diScope.
C2_DisposedExactlyOnce ==
  (options.enableRequestScoping /\ options.disposeOnResponse) =>
    \A r \in Requests : reads[r] = 0 =>
      \A i \in ScopeIds(r) :
        /\ Len(CallsOn(r, i)) <= 1
        /\ Done(r) => Len(CallsOn(r, i)) = 1

\* C3: when the handler throws and the request has a scope, the onError hook
\* calls dispose on it, and the reply still carries status 500, also when that
\* dispose rejects.
C3_ErrorPathDisposes ==
  \A r \in Requests : threw[r] =>
    /\ (options.enableRequestScoping
          /\ pc[r] \in {"onErrorAwait", "errorHandler", "sent",
                        "onResponseAwait", "afterResponse"})
         => \E i \in ScopeIds(r) :
              /\ CallsOn(r, i) # <<>>
              /\ Head(CallsOn(r, i)).hook = "onError"
    /\ pc[r] \in {"sent", "onResponseAwait", "afterResponse"} => status[r] = 500
    /\ pc[r] \in {"onError", "onErrorAwait", "errorHandler"} => status[r] = 0

C3_Witness ==
  \E r \in Requests :
    /\ threw[r] /\ Done(r) /\ status[r] = 500
    /\ \E i \in ScopeIds(r) : "onError" \in scopes[r][i].rejected

\* C4: a dispose that rejects in the onResponse hook is caught and logged: the
\* hook's promise does not reject, the status of the reply is unchanged (200
\* for a handler that returned), and the request runs to its end.
C4_ResponseDisposeFailureSwallowed ==
  \A r \in Requests :
    (\E i \in ScopeIds(r) : "onResponse" \in scopes[r][i].rejected) =>
      /\ "onResponse" \notin hookErrors[r]
      /\ Logged(r, "Failed to dispose Awilix scope on response")
      /\ Done(r)
      /\ ~threw[r] => status[r] = 200

C4_Witness ==
  \E r \in Requests :
    /\ ~threw[r] /\ Done(r) /\ status[r] = 200
    /\ \E i \in ScopeIds(r) : "onResponse" \in scopes[r][i].rejected

\* C5 as stated: with request scoping enabled, a request that never reads
\* request.diScope causes no dispose call.
C5_NoReadNoDispose ==
  options.enableRequestScoping =>
    \A r \in Requests : reads[r] = 0 =>
      \A i \in ScopeIds(r) : CallsOn(r, i) = <<>>

\* C5 amended: with request scoping enabled, a request that never reads
\* request.diScope still has exactly one scope, made by the onRequest hook;
\* nothing is disposed while the handler runs, dispose has been called on the
\* scope (at least once) by the time the request is over if dispose-on-response
\* is enabled or the handler threw, and it is never called if
\* dispose-on-response is disabled and the handler returned.
C5_EagerScopeDisposed ==
  options.enableRequestScoping =>
    \A r \in Requests : reads[r] = 0 =>
      /\ Len(scopes[r]) = (IF pc[r] = "received" THEN 0 ELSE 1)
      /\ \A i \in ScopeIds(r) :
           /\ pc[r] \in {"handler", "onError"} => CallsOn(r, i) = <<>>
           /\ (Done(r) /\ (options.disposeOnResponse \/ threw[r]))
                => CallsOn(r, i) # <<>>
           /\ (~options.disposeOnResponse /\ ~threw[r]) => CallsOn(r, i) = <<>>

C5_Witness ==
  /\ options.enableRequestScoping
  /\ \E r \in Requests :
       /\ reads[r] = 0 /\ Done(r) /\ ~threw[r]
       /\ Len(scopes[r]) = 1
       /\ CallsOn(r, 1) # <<>>

\* C6: when disposeOnResponse is false, the plugin never calls dispose on a
\* request scope, whether the handler returns or throws.
C6_NoDisposeWhenSwitchedOff ==
  ~options.disposeOnResponse =>
    \A r \in Requests : \A i \in ScopeIds(r) : CallsOn(r, i) = <<>>

\* C7: when enableRequestScoping is false, container.createScope is never
\* called and no scope is ever disposed, whatever the other switches are and
\* however the requests end; request.diScope is undefined.
C7_NoScopingNoScopes ==
  ~options.enableRequestScoping =>
    \A r \in Requests :
      /\ scopes[r] = <<>>
      /\ scopeMap[r] = None
      /\ got[r] \subseteq {None}

C7_Witness ==
  /\ ~options.enableRequestScoping
  /\ options.disposeOnResponse
  /\ \E r, q \in Requests :
       /\ Done(r) /\ threw[r] /\ reads[r] > 0
       /\ Done(q) /\ ~threw[q]

\* C8: the root container's dispose is called exactly once on server close if
\* disposeOnClose is enabled and never if it is disabled; while the server is
\* running, handling requests never calls it.
C8_RootDisposeOnClose ==
  /\ server = "running" => rootDisposeCalls = 0
  /\ server # "running" =>
       rootDisposeCalls = (IF options.disposeOnClose THEN 1 ELSE 0)

C8_Witness ==
  /\ server = "closed"
  /\ rootDisposeCalls = 1
  /\ \E r \in Requests : Done(r) /\ scopes[r] # <<>>

\* C9: a root dispose that rejects during server close is caught and logged,
\* and app.close() still resolves.
C9_CloseDisposeFailureSwallowed ==
  /\ server = "closed" => closeResult = "ok"
  /\ rootDisposeRejected =>
       /\ server = "closed"
       /\ Logged(0, "Failed to dispose Awilix container on server close")

C9_Witness ==
  /\ rootDisposeRejected
  /\ server = "closed"
  /\ closeResult = "ok"

\* C10: scopes are owned per request: the scope a request holds was created
\* for that request, request.diScope returns only scopes of the reading
\* request, and every dispose call on a scope is made by a hook running for
\* the request the scope was created for.
C10_ScopesOwnedPerRequest ==
  \A r \in Requests :
    /\ scopeMap[r] # None =>
         /\ scopeMap[r][1] = r
         /\ scopeMap[r][2] \in ScopeIds(r)
    /\ \A g \in got[r] : g # None => g[1] = r
    /\ \A i \in ScopeIds(r) :
         \A k \in 1..Len(CallsOn(r, i)) : CallsOn(r, i)[k].req = r

C10_Witness ==
  \E r, q \in Requests :
    /\ r # q
    /\ Done(r) /\ scopes[r] # <<>> /\ CallsOn(r, 1) # <<>>
    /\ pc[q] = "handler" /\ got[q] # {} /\ scopeMap[q] # None

\* ---- properties of the DI bridge ----------------------------------------
\* a resolver exists and its kind came from detectContainerType
AutoDetected == resolver.kind # "none" /\ resolver.override = Undefined

\* C11: auto-detection has a fixed priority: a container with a cradle object
\* is 'awilix' whatever get and resolve are, and a container without a cradle
\* whose get is callable is 'inversify' whatever resolve is.
C11_DetectionPriority ==
  AutoDetected =>
    /\ HasCradle(container) => resolver.kind = "awilix"
    /\ (~HasCradle(container) /\ container.get = "function")
         => resolver.kind = "inversify"

C11_Witness ==
  /\ AutoDetected
  /\ HasCradle(container)
  /\ container.get = "function"
  /\ container.resolve = "function"
  /\ resolver.kind = "awilix"

\* C12: a container with no cradle and no get but a callable resolve is
\* auto-classified as resolve-style ('tsyringe'), the kind whose resolve first
\* calls container.resolve(ClassRef).
C12_ResolveOnlyIsResolveStyle ==
  (AutoDetected /\ ~HasCradle(container) /\ container.get = "absent"
     /\ container.resolve = "function")
    => /\ resolver.kind = "tsyringe"
       /\ call.op = "resolve" => call.containerCalls = <<"resolve">>

\* C13 as stated: a container with no cradle, no callable get and no callable
\* resolve is classified as 'generic'.
C13_ShapelessIsGeneric ==
  (AutoDetected /\ ~HasCradle(container) /\ container.get # "function"
     /\ container.resolve # "function")
    => resolver.kind = "generic"

\* C14: a SmartDIResolver constructed with an explicit kind retains exactly
\* that kind, whatever the shape of the container.
C14_OverrideWins ==
  (resolver.via = "direct" /\ resolver.containerType # Undefined)
    => resolver.kind = resolver.containerType

C14_Witness ==
  /\ resolver.via = "direct"
  /\ resolver.containerType = "generic"
  /\ HasCradle(container)
  /\ container.get = "function"
  /\ resolver.kind = "generic"

\* C15: when diBridgePlugin is registered with a containerType option, the
\* resolver's kind is that containerType, for every container shape and every
\* value of autoDetect (true, false or omitted).
C15_PluginContainerTypeWins ==
  (resolver.via = "plugin" /\ resolver.containerType # Undefined)
    => resolver.kind = resolver.containerType

\* C16: resolve(Class) on an 'inversify' or 'tsyringe' resolver whose
\* container call throws constructs the class with the raw container and
\* never re-raises the container's error; when the container call returns,
\* its value is the result and the class is not constructed.
C16_FallbackOnContainerFailure ==
  (call.op = "resolve" /\ resolver.kind \in {"inversify", "tsyringe"}) =>
    /\ call.lookupThrew =>
         /\ call.constructed = <<"container">>
         /\ call.outcome = "return" =>
              (call.value = "instance" /\ call.deps = "container")
         /\ call.outcome = "throw" => call.value = "ctorError"
    /\ (call.containerCalls # <<>> /\ ~call.lookupThrew) =>
         /\ call.outcome = "return"
         /\ call.value = "containerValue"
         /\ call.constructed = <<>>

C16_Witness ==
  /\ call.op = "resolve"
  /\ resolver.kind = "tsyringe"
  /\ call.lookupThrew
  /\ call.lookupError = "containerError"
  /\ call.outcome = "return"
  /\ call.deps = "container"

\* C17: resolve(Class) on a 'generic' resolver constructs the class with the
\* raw container and never calls container.resolve or container.get.
C17_GenericAlwaysConstructs ==
  (call.op = "resolve" /\ resolver.kind = "generic") =>
    /\ call.containerCalls = <<>>
    /\ call.constructed = <<"container">>
    /\ call.outcome = "return" =>
         (call.value = "instance" /\ call.deps = "container")
    /\ call.outcome = "throw" => call.value = "ctorError"

C17_Witness ==
  /\ call.op = "resolve"
  /\ resolver.kind = "generic"
  /\ container.resolve = "function"
  /\ container.get = "function"
  /\ call.outcome = "return"
  /\ call.deps = "container"

\* C18: resolve(Class) on an 'awilix' resolver constructs the class with the
\* container's cradle as sole argument, calls nothing on the container, and an
\* exception of the constructor reaches the caller.
C18_AwilixUsesCradle ==
  (call.op = "resolve" /\ resolver.kind = "awilix") =>
    /\ call.containerCalls = <<>>
    /\ call.constructed = <<CradleRef(container)>>
    /\ call.outcome = "return" =>
         (call.value = "instance" /\ call.deps = CradleRef(container))
    /\ call.outcome = "throw" => call.value = "ctorError"

C18_Witness ==
  /\ call.op = "resolve"
  /\ resolver.kind = "awilix"
  /\ HasCradle(container)
  /\ call.outcome = "return"
  /\ call.deps = "cradle"

\* C19: resolveByName never falls back: when the lookup throws, the call
\* raises that same error and returns no value, for every kind.
C19_ByNamePropagates ==
  (call.op = "resolveByName" /\ call.lookupThrew) =>
    /\ call.outcome = "throw"
    /\ call.value = call.lookupError

C19_Witness ==
  /\ call.op = "resolveByName"
  /\ resolver.kind \in {"inversify", "tsyringe", "generic"}
  /\ call.lookupThrew
  /\ call.lookupError = "containerError"
  /\ call.outcome = "throw"

\* C20: resolveByName on an 'awilix' resolver with an identifier that is not
\* in the cradle raises an error; it does not return undefined.
C20_AbsentCradleNameIsError ==
  (call.op = "resolveByName" /\ resolver.kind = "awilix"
     /\ HasCradle(container) /\ call.name \notin container.keys)
    => call.outcome = "throw"

\* ---- properties of the controller plugin ----------------------------------
\* C21: for each controller class the plugin takes exactly one instantiation
\* path, the first applicable of: fastify.diResolver, the legacy resolver
\* option, the legacy container option, fastify.diContainer with a cradle,
\* fastify.diContainer, a plain `new Class()`; the constructor gets the
\* argument of that path, so legacy options are ignored when a Smart Resolver
\* is attached.  The "instantiated without dependencies" warning is logged
\* for a class exactly when its plain constructor returned.
C21_InstantiationPriority ==
  \A k \in ControllerClasses :
    LET c == controllers[k]
        legacy == plugin.legacyResolver \/ plugin.legacyContainer
    IN c.path # "none" =>
         /\ DiResolverAttached => c.path = "diResolver"
         /\ (~DiResolverAttached /\ plugin.legacyResolver)
              => c.path = "legacyResolver"
         /\ (~DiResolverAttached /\ ~plugin.legacyResolver /\ plugin.legacyContainer)
              => c.path = "legacyContainer"
         /\ (~DiResolverAttached /\ ~legacy /\ DiContainerAttached
               /\ HasCradle(container)) => c.path = "cradle"
         /\ (~DiResolverAttached /\ ~legacy /\ DiContainerAttached
               /\ ~HasCradle(container)) => c.path = "diContainer"
         /\ (~DiResolverAttached /\ ~legacy /\ ~DiContainerAttached)
              => c.path = "plain"
         /\ c.instance # 0 =>
              CASE c.path = "diResolver" ->
                     c.deps \in {"injected", "cradle", "container", "undefined"}
                [] c.path = "legacyResolver" -> c.deps = "injected"
                [] c.path = "legacyContainer" -> c.deps = "legacyContainer"
                [] c.path = "cradle" -> c.deps = "cradle"
                [] c.path = "diContainer" -> c.deps = "container"
                [] OTHER -> c.deps = "none"
         /\ WarnNoDependencies(k) \in log <=> (c.path = "plain" /\ c.instance # 0)

C21_Witness ==
  /\ DiResolverAttached
  /\ plugin.legacyResolver /\ plugin.legacyContainer
  /\ plugin.state = "registered"
  /\ \A k \in ControllerClasses :
       controllers[k].path = "diResolver" /\ controllers[k].instance # 0

\* C22: the constructor of every registered controller class ran exactly once,
\* at registration, and every request on its routes ran against that one
\* instance.
C22_ConstructedOnce ==
  \A k \in ControllerClasses :
    controllers[k].routes # {} =>
      /\ controllers[k].ctorRuns = 1
      /\ \A t \in ranOn : t.controller = k => t.instance = controllers[k].instance

\* C23: when the constructor of a controller threw during registration, the
\* plugin was left by that exception (startup aborted) and no route of the
\* controller is registered.
C23_ConstructorThrowAborts ==
  \A k \in ControllerClasses :
    controllers[k].ctorThrows > 0 =>
      /\ plugin.state = "aborted"
      /\ controllers[k].routes = {}

\* C24: on a route whose effective auth strategy is a strategy name or a
\* strategy object the controller method is invoked only for requests the
\* authenticate step accepted: not after the strategy threw, and not after it
\* sent a 401 reply and returned.
C24_AuthRequired ==
  \A r \in Requests :
    (AuthStrategy \in {"named", "strategy"} /\ authReq[r].invoked)
      => authReq[r].verdict = "accept"

\* the functions of the @Middleware decorators of `written`, first written first
RECURSIVE Stacked(_)
Stacked(written) ==
  IF Len(written) = 0 THEN <<>>
  ELSE (IF Head(written).kind = "Middleware" THEN Head(written).fns ELSE <<>>)
         \o Stacked(Tail(written))

\* the preHandler functions of the @Opts decorators of `written`
RECURSIVE OptsPreHandlers(_)
OptsPreHandlers(written) ==
  IF Len(written) = 0 THEN <<>>
  ELSE (IF Head(written).kind = "Opts" THEN Head(written).fns ELSE <<>>)
         \o OptsPreHandlers(Tail(written))

NumberOf(kind, written) ==
  Cardinality({i \in 1..Len(written) : written[i].kind = kind})

\* C25: with several @Middleware decorators stacked on a method (and at most
\* one @Opts), a request runs the controller-level middleware, then the
\* method's middleware in the order the decorators are written from top to
\* bottom, then the preHandler given in @Opts.
C25_StackedOrder ==
  (route.registered
     /\ NumberOf("Middleware", decorators.method) >= 2
     /\ NumberOf("Opts", decorators.method) <= 1)
    => /\ route.preHandler = metadata.middleware \o Stacked(decorators.method)
                               \o OptsPreHandlers(decorators.method)
       /\ route.ran \in {<<>>, route.preHandler}

\* a path without its leading and trailing "/" characters, all of them
RECURSIVE TrimSlashes(_)
TrimSlashes(p) ==
  IF StartsWith(p, "/") THEN TrimSlashes(SubSeq(p, 2, Len(p)))
  ELSE IF EndsWith(p, "/") THEN TrimSlashes(SubSeq(p, 1, Len(p) - 1))
  ELSE p

\* C26: the registered path is "/" followed by the non-empty segments among
\* plugin prefix, controller prefix and route path, each trimmed of all its
\* leading and trailing "/", joined by one "/": it starts with exactly one
\* "/" and ends with "/" only if it is the root.
C26_PathWellFormed ==
  pathReg.registered =>
    LET segs == SelectSeq(<<TrimSlashes(pathReg.prefix),
                            TrimSlashes(pathReg.controllerPrefix),
                            TrimSlashes(pathReg.path)>>, NonEmpty)
        p == pathReg.fullPath
    IN /\ p = IF Len(segs) = 0 THEN <<"/">> ELSE JoinSegments(segs)
       /\ StartsWith(p, "/")
       /\ Len(p) > 1 => p[2] # "/"
       /\ EndsWith(p, "/") => p = <<"/">>

\* C27: the kind a SmartDIResolver dispatches on is fixed when it is built:
\* no resolve, resolveByName or getCradle call and no change of the
\* container's members changes the retained kind, and every call dispatches
\* on it.
C27_KindFixedAtConstruction ==
  [][resolver.kind # "none" =>
       /\ resolver'.kind = resolver.kind
       /\ call' # call => call'.kind = resolver.kind]_vars

C27_Witness ==
  /\ AutoDetected
  /\ resolver.kind = "awilix"
  /\ ~HasCradle(container)
  /\ container.get = "function"
  /\ call.op = "getCradle"
  /\ call.kind = "awilix"
  /\ call.value \in {"undefined", "null"}

\* C28: with request scoping and dispose-on-response enabled no scope is
\* orphaned: once a request is over, dispose was called on the scope that was
\* created first for it, also when that scope was created by a read of
\* diScope before the plugin's onRequest hook ran.
C28_NoScopeOrphaned ==
  (options.enableRequestScoping /\ options.disposeOnResponse) =>
    \A r \in Requests :
      (Done(r) /\ Len(scopes[r]) >= 1) => CallsOn(r, 1) # <<>>

\* C29: scope-disposed is terminal: once a scope of a request was disposed
\* and its map entry deleted, no step creates another scope for that request.
C29_DisposedIsTerminal ==
  [][\A r \in Requests :
       (scopeMap[r] = None /\ \E i \in ScopeIds(r) : CallsOn(r, i) # <<>>)
         => Len(scopes'[r]) = Len(scopes[r])]_vars

\* C30: a key is rejected with 429 only before the resetTime of its entry,
\* so the retryAfter sent with a 429 is at least 1, and an entry never counts
\* more than maxRequests admitted requests.
C30_AdmittedAgainAtReset ==
  /\ rateReply.status = 429 =>
       /\ rateReply.at < rateReply.resetTime
       /\ rateReply.retryAfter >= 1
  /\ \A k \in Keys : rateLimit.requests[k].count <= rateLimit.maxRequests

====
